---- MODULE Spec2Model ----
(***************************************************************************)
(* A model of main.ipynb: the ImprovedMTAN interpolation model, its        *)
(* training loop (Adam + ReduceLROnPlateau) and the interpolate function.  *)
(*                                                                         *)
(* Tensors are modelled by their shapes (sequences of dimensions), the     *)
(* learned weights of a model by the number of optimizer updates applied   *)
(* to them, losses by a small set of finite values plus NaN and +inf, and  *)
(* the learning rate by an integer number of units of 2.5e-9 (a quarter of *)
(* the scheduler's eps), so that halving and the eps test are exact.       *)
(***************************************************************************)
EXTENDS Integers, Sequences, FiniteSets

(***************************************************************************)
(* Bounds of the model.                                                    *)
(***************************************************************************)
\* epochs argument of the long training run: an improving first epoch and
\* two plateaus of 101 epochs
MaxEpochs == 203
\* largest epochs argument of the runs of the whole-program specification
MaxProgEpochs == 2
\* largest epochs argument of the single run checked for termination
MaxRunEpochs == 4
\* calls of train_model / interpolate the main program makes
MaxCalls == 3
\* largest hidden_dim, num_heads, num_layers of a constructed model
MaxHidden == 3
MaxHeads == 2
MaxLayers == 1
\* largest length of the observed t and x arrays, and of the dense grid
MaxLen == 2
MaxDense == 2
\* np.interp: largest time, value, number of support points and queries
MaxTime == 3
MaxVal == 2
MaxPoints == 3
MaxQueries == 1

(***************************************************************************)
(* Program constants.                                                      *)
(***************************************************************************)
\* ReduceLROnPlateau(optimizer, patience=100, factor=0.5)
Patience == 100
FactorNum == 1
FactorDen == 2
\* ReduceLROnPlateau defaults: eps=1e-8 (4 units of 2.5e-9), min_lr=0,
\* threshold=1e-4 in mode 'min', threshold_mode 'rel': a < best * 9999/10000
Eps == 4
MinLr == 0
ThresholdNum == 9999
ThresholdDen == 10000
\* train_model(..., lr=0.001): 0.001 = 400000 units of 2.5e-9
DefaultLr == 400000
\* ImprovedMTAN(input_dim=1, hidden_dim=64, num_heads=4, num_layers=2)
MainHidden == 64
MainHeads == 4
MainLayers == 2
\* generate_synthetic_data(num_points=30)
MainPoints == 30

Models == {"a", "b"}

VARIABLES
    cfg,            \* hyperparameters the models were constructed with
    params,         \* per model: the version of its weights (updates applied)
    evaluated,      \* per model: the modules evaluated on it so far
    budget,         \* calls the main program still makes
    callKind,       \* "none" | "train" | "interpolate": the last call
    model,          \* the model argument of the last call
    lenT, lenX,     \* lengths of the t and x arguments of the last call
    lenDense,       \* length of t_dense of the last interpolate call
    result,         \* "none" | "ok" | "raised": how the last interpolate ended
    outShape,       \* shape of the array the last interpolate returned
    fwd,            \* the last forward pass: lengths supplied, raised or not
    trainPc,        \* "idle" | "running" | "returned" | "raised"
    epochs, baseLr, \* the epochs and lr arguments of the run
    epoch,          \* loop variable of train_model: iterations completed
    lastLoss,       \* the loss of the last iteration
    lr,             \* optimizer.param_groups[0]['lr']
    adamStep,       \* Adam's step count (0: no moment accumulators yet)
    best,           \* scheduler.best
    numBad,         \* scheduler.num_bad_epochs
    lastEpoch,      \* scheduler.last_epoch: scheduler updates of the run
    numReductions,  \* history: times the scheduler lowered lr in this run
    lastReduction,  \* history: scheduler update of the last lowering (0: none)
    obsT, obsX,     \* np.interp: the support points xp and their values fp
    tDense, xDense  \* np.interp: the queries and the interpolated values

progVars == <<cfg, params, evaluated, budget, callKind, model, lenT, lenX,
              lenDense, result, outShape, fwd>>
trainVars == <<trainPc, epochs, baseLr, epoch, lastLoss, lr, adamStep, best,
               numBad, lastEpoch, numReductions, lastReduction>>
interpVars == <<obsT, obsX, tDense, xDense>>
vars == <<progVars, trainVars, interpVars>>

(***************************************************************************)
(* Losses: a finite non-negative value (MSELoss), NaN or +inf.             *)
(***************************************************************************)
Fin(v) == [kind |-> "fin", val |-> v]
NaN == [kind |-> "nan", val |-> 0]
PosInf == [kind |-> "inf", val |-> 0]
NoLoss == [kind |-> "none", val |-> 0]
IsFinite(l) == l.kind = "fin"

(***************************************************************************)
(* ReduceLROnPlateau                                                       *)
(***************************************************************************)
\* is_better(a, best), mode 'min', threshold_mode 'rel':
\*     a < best * (1 - threshold)
IsBetter(a, b) ==
    CASE a.kind # "fin" -> FALSE
      [] b.kind = "inf" -> TRUE
      [] OTHER -> a.val * ThresholdDen < b.val * ThresholdNum

Max(a, b) == IF a >= b THEN a ELSE b

\* old_lr * factor
TimesFactor(old) == (old * FactorNum) \div FactorDen

\* (variant of ReduceLr without the eps test)
ReduceLrNoEps(old) == Max(TimesFactor(old), MinLr)

\* _reduce_lr: new_lr = max(old_lr * factor, min_lr);
\*             if old_lr - new_lr > eps: param_group['lr'] = new_lr
ReduceLr(old) ==
    LET new == Max(TimesFactor(old), MinLr)
    IN  IF old - new > Eps THEN new ELSE old

\* num_bad_epochs after the is_better test of scheduler.step(loss)
BadEpochs(loss) == IF IsBetter(loss, best) THEN 0 ELSE numBad + 1

\* if self.num_bad_epochs > self.patience
Plateau(bad) == bad > Patience

\* (variant of BadAfter that keeps counting after a plateau)
BadAfterNoReset(loss) == BadEpochs(loss)

\* num_bad_epochs at the end of scheduler.step(loss)
BadAfter(loss) == IF Plateau(BadEpochs(loss)) THEN 0 ELSE BadEpochs(loss)

\* scheduler.step(loss)
SchedulerStep(loss) ==
    LET better == IsBetter(loss, best)
        bad == BadEpochs(loss)
        newLr == IF Plateau(bad) THEN ReduceLr(lr) ELSE lr
    IN  /\ best' = IF better THEN loss ELSE best
        /\ numBad' = BadAfter(loss)
        /\ lr' = newLr
        /\ lastEpoch' = lastEpoch + 1
        /\ numReductions' = IF newLr # lr THEN numReductions + 1
                            ELSE numReductions
        /\ lastReduction' = IF newLr # lr THEN lastEpoch + 1
                            ELSE lastReduction

(***************************************************************************)
(* Tensor shapes                                                           *)
(***************************************************************************)
RECURSIVE Prod(_)
Prod(s) == IF s = <<>> THEN 1 ELSE Head(s) * Prod(Tail(s))

\* tensor.view(target) raises unless the element counts agree
ViewOk(shape, target) == Prod(shape) = Prod(target)

NotUnit(d) == d # 1

\* tensor.squeeze(): every dimension of size 1 is removed
Squeeze(shape) == SelectSeq(shape, NotUnit)

\* tensor.squeeze(-1) and tensor.unsqueeze(-1)
SqueezeLast(shape) ==
    IF shape # <<>> /\ shape[Len(shape)] = 1
    THEN SubSeq(shape, 1, Len(shape) - 1) ELSE shape
UnsqueezeLast(shape) == Append(shape, 1)

\* nn.Linear(in, out) applied to a tensor whose last dimension is in
Linear(shape, out) == SubSeq(shape, 1, Len(shape) - 1) \o <<out>>

(***************************************************************************)
(* The model                                                               *)
(***************************************************************************)
Configs == [hiddenDim : 1..MaxHidden, numHeads : 1..MaxHeads,
            numLayers : 0..MaxLayers]
MainConfig == [hiddenDim |-> MainHidden, numHeads |-> MainHeads,
               numLayers |-> MainLayers]

\* MultiTimeAttention.__init__: self.head_dim = embed_dim // num_heads
HeadDim(c) == c.hiddenDim \div c.numHeads

Outcome(r, o, s) == [raised |-> r, ops |-> o, shape |-> s]

\* MultiTimeAttention.forward(x, t): the modules evaluated, in order, until
\* a view raises; the shape of the output otherwise
ProjectionOps == {"q_linear", "k_linear", "v_linear", "time_embedding"}
AttentionOps == {"attn_scores", "softmax", "attn_output"}

MultiTimeAttentionForward(c, xShape, tShape) ==
    LET B == xShape[1]
        L == xShape[2]
        qShape == Linear(xShape, c.hiddenDim)
        teShape == Linear(UnsqueezeLast(tShape), c.hiddenDim)
        heads == <<B, L, c.numHeads, HeadDim(c)>>
    IN  IF ~ViewOk(qShape, heads) \/ ~ViewOk(teShape, heads)
        THEN Outcome(TRUE, ProjectionOps, <<>>)
        ELSE IF ~ViewOk(heads, <<B, L, c.hiddenDim>>)
        THEN Outcome(TRUE, ProjectionOps \cup AttentionOps, <<>>)
        ELSE Outcome(FALSE, ProjectionOps \cup AttentionOps,
                     <<B, L, c.hiddenDim>>)

\* for layer in self.attention_layers: x = layer(x, t) + x
RECURSIVE AttentionLayers(_, _, _, _, _)
AttentionLayers(c, k, xShape, tShape, ops) ==
    IF k = 0 THEN Outcome(FALSE, ops, xShape)
    ELSE LET a == MultiTimeAttentionForward(c, xShape, tShape)
         IN  IF a.raised \/ a.shape # xShape
             THEN Outcome(TRUE, ops \cup a.ops, <<>>)
             ELSE AttentionLayers(c, k - 1, xShape, tShape, ops \cup a.ops)

\* ImprovedMTAN.forward(t, x) on tensors of shapes (1, lt) and (1, lx)
ImprovedMTANForward(c, lt, lx) ==
    LET x0 == Linear(UnsqueezeLast(<<1, lx>>), c.hiddenDim)
        a == AttentionLayers(c, c.numLayers, x0, <<1, lt>>, {"input_proj"})
    IN  IF a.raised THEN a
        ELSE Outcome(FALSE, a.ops \cup {"fc"},
                     SqueezeLast(Linear(a.shape, 1)))

NoFwd == [done |-> FALSE, model |-> "a", t |-> 0, x |-> 0, raised |-> FALSE]
FwdOf(m, lt, lx, r) ==
    [done |-> TRUE, model |-> m, t |-> lt, x |-> lx, raised |-> r]

(***************************************************************************)
(* train_model(model, t, x, epochs, lr)                                    *)
(***************************************************************************)
\* (variant of FreshBest with a scheduler shared between the calls)
FreshOrKeptBest == IF callKind = "train" THEN best ELSE PosInf

\* the optimizer and the scheduler are locals of the call, built anew
FreshBest == PosInf
FreshBad == 0

TrainStart(epochChoices, lrChoices, lenChoices) ==
    /\ trainPc # "running"
    /\ budget > 0
    /\ \E m \in Models, e \in epochChoices, r \in lrChoices :
       \E lt \in lenChoices, lx \in lenChoices :
          /\ model' = m
          /\ epochs' = e
          /\ baseLr' = r
          /\ lenT' = lt
          /\ lenX' = lx
          /\ lr' = r
    /\ adamStep' = 0
    /\ best' = FreshBest
    /\ numBad' = FreshBad
    /\ lastEpoch' = 0
    /\ numReductions' = 0
    /\ lastReduction' = 0
    /\ epoch' = 0
    /\ lastLoss' = NoLoss
    /\ trainPc' = "running"
    /\ callKind' = "train"
    /\ budget' = budget - 1
    /\ UNCHANGED <<cfg, params, evaluated, lenDense, result, outShape, fwd>>
    /\ UNCHANGED interpVars

\* (variant of LoopContinues that stops once the loss no longer changes)
LoopEndsOnConvergence ==
    epoch < epochs /\ ~(IsFinite(lastLoss) /\ lastLoss = best /\ numBad > 0)

\* whether the loop body runs once more: for epoch in range(epochs)
LoopContinues == epoch < epochs

\* one iteration: zero_grad, forward, loss, backward, optimizer.step,
\* scheduler.step(loss)
TrainEpoch(lossChoices) ==
    /\ trainPc = "running"
    /\ LoopContinues
    /\ LET f == ImprovedMTANForward(cfg, lenT, lenX)
       IN  /\ evaluated' = [evaluated EXCEPT ![model] = @ \cup f.ops]
           /\ fwd' = FwdOf(model, lenT, lenX, f.raised)
           /\ IF f.raised \/ f.shape # <<1, lenX>>
              THEN /\ trainPc' = "raised"
                   /\ UNCHANGED <<params, epoch, lastLoss, lr, adamStep, best,
                                  numBad, lastEpoch, numReductions,
                                  lastReduction>>
              ELSE /\ \E l \in lossChoices :
                         /\ lastLoss' = l
                         /\ SchedulerStep(l)
                   /\ params' = [params EXCEPT ![model] = @ + 1]
                   /\ adamStep' = adamStep + 1
                   /\ epoch' = epoch + 1
                   /\ trainPc' = "running"
    /\ UNCHANGED <<cfg, budget, callKind, model, lenT, lenX, lenDense, result,
                   outShape, epochs, baseLr>>
    /\ UNCHANGED interpVars

\* the loop is exhausted and train_model returns
TrainReturn ==
    /\ trainPc = "running"
    /\ ~LoopContinues
    /\ trainPc' = "returned"
    /\ UNCHANGED <<epochs, baseLr, epoch, lastLoss, lr, adamStep, best, numBad,
                   lastEpoch, numReductions, lastReduction>>
    /\ UNCHANGED progVars
    /\ UNCHANGED interpVars

(***************************************************************************)
(* The long training run: one call of train_model on the model of the main *)
(* experiment, with every sequence of losses.                              *)
(***************************************************************************)
SchedLosses == {Fin(ThresholdDen), Fin(ThresholdNum), Fin(0)}
SchedEpochs == {0, 1, MaxEpochs}
SchedLrs == {DefaultLr, Eps}

InitTrainState ==
    /\ trainPc = "idle"
    /\ epochs = 0
    /\ baseLr = DefaultLr
    /\ epoch = 0
    /\ lastLoss = NoLoss
    /\ lr = DefaultLr
    /\ adamStep = 0
    /\ best = PosInf
    /\ numBad = 0
    /\ lastEpoch = 0
    /\ numReductions = 0
    /\ lastReduction = 0

InitProgState ==
    /\ params = [m \in Models |-> 0]
    /\ evaluated = [m \in Models |-> {}]
    /\ callKind = "none"
    /\ model = "a"
    /\ lenT = 0
    /\ lenX = 0
    /\ lenDense = 0
    /\ result = "none"
    /\ outShape = <<>>
    /\ fwd = NoFwd

InitNoInterp ==
    /\ obsT = <<>>
    /\ obsX = <<>>
    /\ tDense = <<>>
    /\ xDense = <<>>

InitSched ==
    /\ cfg = MainConfig
    /\ budget = 1
    /\ InitProgState
    /\ InitTrainState
    /\ InitNoInterp

NextSched ==
    \/ TrainStart(SchedEpochs, SchedLrs, {MainPoints})
    \/ TrainEpoch(SchedLosses)
    \/ TrainReturn

SpecSched == InitSched /\ [][NextSched]_vars


(***************************************************************************)
(* interpolate(model, t, x, t_dense)                                       *)
(***************************************************************************)
\* (variant of ParamsAfterInference that updates the weights)
ParamsAfterInferenceStep(m) == [params EXCEPT ![m] = @ + 1]

\* the weights after the forward pass under torch.no_grad()
ParamsAfterInference(m) == params

\* output.squeeze().numpy() of the model's output
ReturnedShape(shape) == Squeeze(shape)

Interpolate(lenChoices) ==
    /\ trainPc # "running"
    /\ budget > 0
    /\ \E m \in Models, lt \in lenChoices, lx \in lenChoices, n \in 1..MaxDense :
          /\ model' = m
          /\ lenT' = lt
          /\ lenX' = lx
          /\ lenDense' = n
          /\ params' = ParamsAfterInference(m)
          /\ IF lt # lx
             THEN \* np.interp: fp and xp are not of the same length
                  /\ result' = "raised"
                  /\ outShape' = <<>>
                  /\ UNCHANGED <<evaluated, fwd>>
             ELSE LET f == ImprovedMTANForward(cfg, n, n)
                  IN  /\ evaluated' = [evaluated EXCEPT ![m] = @ \cup f.ops]
                      /\ fwd' = FwdOf(m, n, n, f.raised)
                      /\ result' = IF f.raised THEN "raised" ELSE "ok"
                      /\ outShape' = IF f.raised THEN <<>>
                                     ELSE ReturnedShape(f.shape)
    /\ callKind' = "interpolate"
    /\ budget' = budget - 1
    /\ UNCHANGED cfg
    /\ UNCHANGED trainVars
    /\ UNCHANGED interpVars

(***************************************************************************)
(* The whole program: models of one configuration, then any calls of       *)
(* train_model and interpolate, one at a time.                             *)
(***************************************************************************)
ProgLosses == {NaN, PosInf, Fin(ThresholdDen), Fin(0)}

Init ==
    /\ cfg \in Configs
    /\ budget = MaxCalls
    /\ InitProgState
    /\ InitTrainState
    /\ InitNoInterp

Next ==
    \/ TrainStart(0..MaxProgEpochs, {DefaultLr}, 1..MaxLen)
    \/ TrainEpoch(ProgLosses)
    \/ TrainReturn
    \/ Interpolate(1..MaxLen)

Spec == Init /\ [][Next]_vars

(***************************************************************************)
(* The main experiment: the model ImprovedMTAN(1, 64, 4, 2) and 30         *)
(* observed points, then any calls of train_model and interpolate.         *)
(***************************************************************************)
InitMain ==
    /\ cfg = MainConfig
    /\ budget = MaxCalls
    /\ InitProgState
    /\ InitTrainState
    /\ InitNoInterp

NextMain ==
    \/ TrainStart(0..MaxProgEpochs, {DefaultLr}, {MainPoints})
    \/ TrainEpoch(ProgLosses)
    \/ TrainReturn
    \/ Interpolate({MainPoints})

SpecMain == InitMain /\ [][NextMain]_vars

(***************************************************************************)
(* One call of train_model in the main experiment. The loop is sequential  *)
(* code: once entered, it keeps taking its next step.                      *)
(***************************************************************************)
InitRun ==
    /\ cfg = MainConfig
    /\ budget = 1
    /\ InitProgState
    /\ InitTrainState
    /\ InitNoInterp

NextRun ==
    \/ TrainStart(0..MaxRunEpochs, {DefaultLr}, {MainPoints})
    \/ TrainEpoch(ProgLosses)
    \/ TrainReturn

FairRun ==
    /\ InitRun
    /\ [][NextRun]_vars
    /\ WF_vars(TrainEpoch(ProgLosses))
    /\ WF_vars(TrainReturn)

(***************************************************************************)
(* np.interp(t_dense, t, x): values as fractions num/den with den > 0      *)
(***************************************************************************)
Frac(n, d) == [num |-> n, den |-> d]

\* the index j with xp[j] <= key < xp[j+1], by bisection on lo..hi, for
\* xp[lo] <= key
RECURSIVE BinarySearch(_, _, _, _)
BinarySearch(key, xp, lo, hi) ==
    IF lo >= hi THEN lo
    ELSE LET mid == (lo + hi + 1) \div 2
         IN  IF xp[mid] <= key THEN BinarySearch(key, xp, mid, hi)
             ELSE BinarySearch(key, xp, lo, mid - 1)

\* (variant of NpInterp that extends the first and last segments)
NpInterpExtrapolating(q, xp, fp) ==
    LET n == Len(xp)
        j == IF q < xp[1] THEN 1
             ELSE IF BinarySearch(q, xp, 1, n) = n THEN n - 1
             ELSE BinarySearch(q, xp, 1, n)
    IN  IF n = 1 THEN Frac(fp[1], 1)
        ELSE Frac((fp[j + 1] - fp[j]) * (q - xp[j])
                      + fp[j] * (xp[j + 1] - xp[j]),
                  xp[j + 1] - xp[j])

NpInterp(q, xp, fp) ==
    LET n == Len(xp)
    IN  IF q > xp[n] THEN Frac(fp[n], 1)
        ELSE IF q < xp[1] THEN Frac(fp[1], 1)
        ELSE IF n = 1 THEN Frac(fp[1], 1)
        ELSE LET j == BinarySearch(q, xp, 1, n)
             IN  IF j = n THEN Frac(fp[n], 1)
                 ELSE IF xp[j] = q THEN Frac(fp[j], 1)
                 ELSE Frac((fp[j + 1] - fp[j]) * (q - xp[j])
                               + fp[j] * (xp[j + 1] - xp[j]),
                           xp[j + 1] - xp[j])

StrictlyIncreasing(s) == \A i \in 1..(Len(s) - 1) : s[i] < s[i + 1]

SeqsOf(S, n) == [1..n -> S]

\* x_dense = np.interp(t_dense, t, x)
InterpStep ==
    /\ tDense = <<>>
    /\ \E n \in 1..MaxQueries :
       \E q \in SeqsOf(0..MaxTime, n) :
          /\ tDense' = q
          /\ xDense' = [i \in 1..n |-> NpInterp(q[i], obsT, obsX)]
    /\ UNCHANGED <<obsT, obsX>>
    /\ UNCHANGED progVars
    /\ UNCHANGED trainVars

InitInterp ==
    /\ \E n \in 1..MaxPoints :
          /\ obsT \in {s \in SeqsOf(0..MaxTime, n) : StrictlyIncreasing(s)}
          /\ obsX \in SeqsOf(0..MaxVal, n)
    /\ tDense = <<>>
    /\ xDense = <<>>
    /\ cfg = MainConfig
    /\ budget = 0
    /\ InitProgState
    /\ InitTrainState

NextInterp == InterpStep

SpecInterp == InitInterp /\ [][NextInterp]_vars

(***************************************************************************)
(* Properties                                                              *)
(***************************************************************************)
\* the constraint on a configuration: hiddenDim % numHeads = 0
ValidConfig(c) == c.hiddenDim % c.numHeads = 0
\* float comparison a <= b of two recorded best losses (never NaN)
LossLeq(a, b) ==
    CASE a.kind = "nan" \/ b.kind = "nan" -> FALSE
      [] b.kind = "inf" -> TRUE
      [] a.kind = "inf" -> FALSE
      [] OTHER -> a.val <= b.val
NonFinite(l) == l.kind \in {"nan", "inf"}
\* a step that completes one iteration of the training loop
EpochStep == trainPc = "running" /\ epoch' = epoch + 1
\* a step that is a call of interpolate, of train_model
InterpolateStep == callKind' = "interpolate" /\ budget' = budget - 1
TrainStartStep == callKind' = "train" /\ budget' = budget - 1
\* the non-improvement counter of an iteration, before any reset at a plateau
CounterOf(improved) == IF improved THEN 0 ELSE numBad + 1
RECURSIVE Pow2(_)
Pow2(k) == IF k = 0 THEN 1 ELSE 2 * Pow2(k - 1)

\* C1: a configuration whose hiddenDim is not divisible by numHeads is
\* rejected before any computation: no module of such a model is ever
\* evaluated and none of its parameters is ever updated.
C1_InvalidConfigRejectedBeforeComputation ==
    ~ValidConfig(cfg) =>
        \A m \in Models : evaluated[m] = {} /\ params[m] = 0

\* C2: train_model always terminates, after exactly `epochs` iterations
\* (epochs parameter updates, epochs scheduler updates), whatever the losses:
\* only the exhausted iteration count ends the run.
C2_TerminatesAfterExactlyEpochs ==
    /\ [](trainPc = "returned" =>
             epoch = epochs /\ adamStep = epochs /\ lastEpoch = epochs)
    /\ [][trainPc = "running" /\ trainPc' # "running" => epoch = epochs]_vars
    /\ (trainPc = "running" ~> trainPc = "returned")

\* C2 witness: a run of MaxRunEpochs iterations has returned although its
\* loss had reached zero and stopped changing before the last iteration.
C2_Witness ==
    /\ trainPc = "returned"
    /\ epochs = MaxRunEpochs
    /\ adamStep = MaxRunEpochs
    /\ lastLoss = Fin(0)
    /\ numBad > 0

\* C3 as stated: in every iteration in which the non-improvement counter
\* exceeds the patience (100), the step size is halved and the counter reset
\* to 0; in every other iteration the step size is unchanged.
C3_PlateauAlwaysHalves ==
    [][EpochStep =>
          IF CounterOf(best' # best) > Patience
          THEN 2 * lr' = lr /\ numBad' = 0
          ELSE lr' = lr /\ numBad' = CounterOf(best' # best)]_vars

\* C3 as amended: the best loss is replaced only by a finite loss lower than
\* it by more than the relative threshold 1e-4, every other loss adds one to
\* the counter; in every iteration in which the counter exceeds the patience
\* (100) the counter is reset to 0 and the step size is halved if that lowers
\* it by more than eps = 1e-8 and is unchanged otherwise; in every other
\* iteration the step size is unchanged.
C3_PlateauHalvesUnlessWithinEps ==
    [][EpochStep =>
          LET l == lastLoss'
              improved == /\ IsFinite(l)
                          /\ \/ best = PosInf
                             \/ l.val * ThresholdDen < best.val * ThresholdNum
          IN  /\ best' = IF improved THEN l ELSE best
              /\ IF CounterOf(improved) > Patience
                 THEN /\ numBad' = 0
                      /\ IF lr > 2 * Eps THEN 2 * lr' = lr ELSE lr' = lr
                 ELSE /\ numBad' = CounterOf(improved)
                      /\ lr' = lr]_vars

\* C3 witness: the scheduler update just made halved the step size at a
\* plateau and reset the counter.
C3_Witness ==
    /\ trainPc = "running"
    /\ lastEpoch > Patience
    /\ lastReduction = lastEpoch
    /\ numBad = 0
    /\ 2 * lr = baseLr

\* C4: after an iteration whose loss is NaN or infinite the run stops with
\* an error: no further parameter or scheduler update, no normal return.
C4_NonFiniteLossStopsRun ==
    [][trainPc = "running" /\ NonFinite(lastLoss) =>
          /\ trainPc' = "raised"
          /\ adamStep' = adamStep
          /\ lastEpoch' = lastEpoch]_vars

\* C5: interpolate on a validly configured model, an observed series of
\* length m >= 1 and a dense grid of length n >= 1 returns an array of
\* exactly n values.
C5_InterpolateReturnsOnePerQuery ==
    (callKind = "interpolate" /\ ValidConfig(cfg) /\ lenT = lenX) =>
        (result = "ok" /\ outShape = <<lenDense>>)

\* C6: a call of interpolate leaves every model's parameters unchanged, and
\* a parameter changes only in an iteration of train_model, by its one
\* optimizer update.
C6_OnlyOptimizerStepChangesParams ==
    [][/\ InterpolateStep => params' = params
       /\ params' # params =>
             /\ trainPc = "running"
             /\ adamStep' = adamStep + 1
             /\ \A m \in Models \ {model} : params'[m] = params[m]]_vars

\* C6 witness: interpolate has returned values from a model that was
\* trained before.
C6_Witness ==
    /\ callKind = "interpolate"
    /\ result = "ok"
    /\ params[model] > 0

\* C7: a forward pass of a validly configured model (numLayers = 0
\* included) given timestamps and values of different lengths raises.
C7_MismatchedLengthsRaise ==
    (fwd.done /\ ValidConfig(cfg) /\ fwd.t # fwd.x) => fwd.raised

\* C8: for strictly increasing observed times, the value np.interp gives a
\* query equal to t[k] is x[k], between t[k] and t[k+1] it is the value of
\* the line through (t[k], x[k]) and (t[k+1], x[k+1]), below t[1] it is x[1]
\* and above t[last] it is x[last].
C8_LinearInterpolationInput ==
    \A i \in DOMAIN xDense :
        LET q == tDense[i]
            r == xDense[i]
            n == Len(obsT)
        IN  /\ r.den > 0
            /\ \A k \in 1..n : q = obsT[k] => r.num = obsX[k] * r.den
            /\ \A k \in 1..(n - 1) :
                  (obsT[k] < q /\ q < obsT[k + 1]) =>
                      r.num * (obsT[k + 1] - obsT[k]) =
                          r.den * (obsX[k] * (obsT[k + 1] - obsT[k])
                                   + (obsX[k + 1] - obsX[k]) * (q - obsT[k]))
            /\ q < obsT[1] => r.num = obsX[1] * r.den
            /\ q > obsT[n] => r.num = obsX[n] * r.den

\* C8 witness: a query strictly between two observed times got a value that
\* is neither of the two observed values.
C8_Witness ==
    \E i \in DOMAIN xDense : \E k \in 1..(Len(obsT) - 1) :
        /\ obsT[k] < tDense[i]
        /\ tDense[i] < obsT[k + 1]
        /\ xDense[i].num # obsX[k] * xDense[i].den
        /\ xDense[i].num # obsX[k + 1] * xDense[i].den

\* C9: every call of train_model starts with epoch counter 0, the step size
\* of its lr argument, no optimizer moments, no best loss and counter 0,
\* whatever earlier runs left, and starts from the parameters the models have.
C9_FreshTrainingStatePerRun ==
    [][TrainStartStep =>
          /\ trainPc' = "running"
          /\ epoch' = 0
          /\ lr' = baseLr'
          /\ adamStep' = 0
          /\ best' = PosInf
          /\ numBad' = 0
          /\ lastEpoch' = 0
          /\ params' = params]_vars

\* C9 witness: a second run has just started, on a model that an earlier run
\* has trained.
C9_Witness ==
    /\ callKind = "train"
    /\ trainPc = "running"
    /\ epoch = 0
    /\ budget <= MaxCalls - 2
    /\ params[model] > 1
    /\ best = PosInf

\* C10: within a run the step size is the lr argument times 0.5^k, k the
\* number of reductions so far; an iteration never raises the step size,
\* makes at most one reduction, never raises the recorded best loss, and a
\* reduction comes more than patience (100) iterations after the one before.
C10_StepSizeAndBestNeverIncrease ==
    /\ [](trainPc # "idle" => lr * Pow2(numReductions) = baseLr)
    /\ [][EpochStep =>
             /\ lr' <= lr
             /\ numReductions' = numReductions + (IF lr' # lr THEN 1 ELSE 0)
             /\ LossLeq(best', best)
             /\ (lr' # lr /\ numReductions > 0) =>
                    (lastEpoch + 1) - lastReduction > Patience]_vars

\* C10 witness: a run has reduced its step size twice.
C10_Witness ==
    /\ numReductions = 2
    /\ 4 * lr = baseLr
    /\ lastReduction = lastEpoch
====
